---- MODULE Spec2Model ----
(***************************************************************************)
(* Theme preference controller of static/js/theme-toggle.js.               *)
(*                                                                         *)
(* The script is one immediately invoked function that runs once per page  *)
(* load.  It looks the toggle control up, resolves the initial theme from  *)
(* localStorage or the prefers-color-scheme media query, applies it to the *)
(* document and registers a click handler that flips the theme.            *)
(*                                                                         *)
(* localStorage outlives the page, so a page load is an action of the      *)
(* model: it resets the document and keeps the stored value.  Each storage *)
(* access may throw; the script catches the exception at the access.       *)
(*                                                                         *)
(* The record ref is a second copy of the controller that is given the     *)
(* same stored value at each page load, the same media query answer and    *)
(* the same clicks, and whose storage accesses never throw.                *)
(***************************************************************************)
EXTENDS Naturals, Sequences, FiniteSets

\* ---- bounds ----
MaxClicks == 3
MaxLoads == 3

\* ---- values ----
\* JavaScript null: getItem of a missing key, getAttribute of a missing attribute
Null == "null"
\* text and aria-label the toggle carries in the page markup, before the script runs
Markup == "markup"
\* the glyphs written to toggle.textContent
Sun == "sun"
Moon == "moon"
ToLight == "Switch to light mode"
ToDark == "Switch to dark mode"

Themes == {"light", "dark"}
\* contents of the "theme" key when a page loads: missing, empty, the two
\* themes, and a string the script never writes itself
StoredValues == {Null, "", "light", "dark", "sepia"}

VARIABLES
    storage,        \* localStorage["theme"], Null when the key is missing
    ambientDark,    \* matchMedia("(prefers-color-scheme: dark)").matches
    togglePresent,  \* the page has an element matching [data-theme-toggle]
    pc,             \* position of the script in this page load
    themeAttr,      \* data-theme attribute of the document element
    glyph,          \* toggle.textContent
    label,          \* aria-label of the toggle
    handlers,       \* click listeners registered on the toggle
    initialTheme,   \* value getPreferredTheme returned in this page load
    reads,          \* getItem calls in this page load
    writes,         \* setItem calls in this page load
    readFailed,     \* the getItem call of this page load threw
    trace,          \* one entry per setTheme call of this page load
    loadStorage,    \* storage as it was when this page loaded
    prevWrite,      \* last setTheme entry of an earlier page load
    loads,          \* page loads so far
    ref,            \* the controller run without storage faults
    unprompted      \* theme a page load persisted from the media query alone,
                    \* Null once a click or a storage fault has followed

vars == <<storage, ambientDark, togglePresent, pc, themeAttr, glyph, label,
          handlers, initialTheme, reads, writes, readFailed, trace,
          loadStorage, prevWrite, loads, ref, unprompted>>

\* ---- the functions of the script ----

\* JavaScript truthiness of a string-or-null value
Truthy_nullOnly(v) == v # Null

Truthy(v) == v # Null /\ v # ""

safeStorageGet_throwsDark(store, throws) == IF throws THEN "dark" ELSE store

safeStorageGet_throwsLight(store, throws) == IF throws THEN "light" ELSE store

safeStorageGet(store, throws) == IF throws THEN Null ELSE store

safeStorageSet_clearsOnThrow(store, theme, throws) == IF throws THEN Null ELSE theme

safeStorageSet_writesKey(store, theme, throws) == IF throws THEN store ELSE "theme"

safeStorageSet_keepsOld(store, theme, throws) == store

safeStorageSet(store, theme, throws) == IF throws THEN store ELSE theme

matchMedia_inverted(dark) == IF dark THEN "light" ELSE "dark"

matchMedia(dark) == IF dark THEN "dark" ELSE "light"

getPreferredTheme_ambientFirst(store, throws, dark) ==
    IF dark THEN "dark" ELSE
    LET storedTheme == safeStorageGet(store, throws)
    IN  IF Truthy(storedTheme) THEN storedTheme ELSE "light"

getPreferredTheme(store, throws, dark) ==
    LET storedTheme == safeStorageGet(store, throws)
    IN  IF Truthy(storedTheme) THEN storedTheme ELSE matchMedia(dark)

\* the page as setTheme sees it
Page(attr, text, aria, store) ==
    [themeAttr |-> attr, textContent |-> text, ariaLabel |-> aria, storage |-> store]

setTheme_glyphOfCurrent(page, theme, throws) ==
    [themeAttr   |-> theme,
     textContent |-> IF theme = "dark" THEN Moon ELSE Sun,
     ariaLabel   |-> IF theme = "dark" THEN ToDark ELSE ToLight,
     storage     |-> safeStorageSet(page.storage, theme, throws)]

setTheme_writeFirst(page, theme, throws) ==
    IF throws THEN page
    ELSE [themeAttr   |-> theme,
          textContent |-> IF theme = "dark" THEN Sun ELSE Moon,
          ariaLabel   |-> IF theme = "dark" THEN ToLight ELSE ToDark,
          storage     |-> theme]

setTheme_staleLabel(page, theme, throws) ==
    [themeAttr   |-> theme,
     textContent |-> IF theme = "dark" THEN Sun ELSE Moon,
     ariaLabel   |-> page.ariaLabel,
     storage     |-> safeStorageSet(page.storage, theme, throws)]

setTheme(page, theme, throws) ==
    [themeAttr   |-> theme,
     textContent |-> IF theme = "dark" THEN Sun ELSE Moon,
     ariaLabel   |-> IF theme = "dark" THEN ToLight ELSE ToDark,
     storage     |-> safeStorageSet(page.storage, theme, throws)]

nextTheme_wrongCase(attr) == IF attr = "Dark" THEN "light" ELSE "dark"

nextTheme_fromLight(attr) == IF attr = "light" THEN "dark" ELSE "light"

nextTheme(attr) == IF attr = "dark" THEN "light" ELSE "dark"

\* ---- bookkeeping ----

CurrentPage == Page(themeAttr, glyph, label, storage)
RefPage == Page(ref.themeAttr, ref.textContent, ref.ariaLabel, ref.storage)

FreshRef(store) ==
    [themeAttr |-> Null, textContent |-> Markup, ariaLabel |-> Markup,
     storage |-> store, initialTheme |-> Null]

RefAfter(page) ==
    [themeAttr |-> page.themeAttr, textContent |-> page.textContent,
     ariaLabel |-> page.ariaLabel, storage |-> page.storage,
     initialTheme |-> ref.initialTheme]

\* what one setTheme call was given and what it left behind
Entry(theme, throws, before, page) ==
    [arg |-> theme, failed |-> throws, before |-> before,
     themeAttr |-> page.themeAttr, textContent |-> page.textContent,
     ariaLabel |-> page.ariaLabel, storage |-> page.storage]

NoWrite == [arg |-> Null, failed |-> FALSE, before |-> Null,
            themeAttr |-> Null, textContent |-> Markup,
            ariaLabel |-> Markup, storage |-> Null]

\* ---- initial state: a page has just loaded, the script has not run ----
Init ==
    /\ storage \in StoredValues
    /\ ambientDark \in BOOLEAN
    /\ togglePresent \in BOOLEAN
    /\ pc = "load"
    /\ themeAttr = Null
    /\ glyph = Markup
    /\ label = Markup
    /\ handlers = 0
    /\ initialTheme = Null
    /\ reads = 0
    /\ writes = 0
    /\ readFailed = FALSE
    /\ trace = <<>>
    /\ loadStorage = storage
    /\ prevWrite = NoWrite
    /\ loads = 1
    /\ ref = FreshRef(storage)
    /\ unprompted = Null

\* ---- actions ----

\* lines 3-7: look the toggle up, return when the page has none
QueryToggle_noGuard ==
    /\ pc = "load"
    /\ pc' = "resolve"
    /\ UNCHANGED <<storage, ambientDark, togglePresent, themeAttr, glyph, label,
                   handlers, initialTheme, reads, writes, readFailed, trace,
                   loadStorage, prevWrite, loads, ref, unprompted>>

QueryToggle ==
    /\ pc = "load"
    /\ pc' = IF togglePresent THEN "resolve" ELSE "returned"
    /\ UNCHANGED <<storage, ambientDark, togglePresent, themeAttr, glyph, label,
                   handlers, initialTheme, reads, writes, readFailed, trace,
                   loadStorage, prevWrite, loads, ref, unprompted>>

\* line 44, the argument: getPreferredTheme()
Resolve_abortsOnThrow ==
    /\ pc = "resolve"
    /\ \E throws \in BOOLEAN :
        /\ initialTheme' = IF throws THEN Null
                           ELSE getPreferredTheme(storage, FALSE, ambientDark)
        /\ readFailed' = throws
        /\ unprompted' = IF throws THEN Null ELSE unprompted
        /\ pc' = IF throws THEN "returned" ELSE "apply"
    /\ reads' = reads + 1
    /\ ref' = [ref EXCEPT !.initialTheme = getPreferredTheme(ref.storage, FALSE, ambientDark)]
    /\ UNCHANGED <<storage, ambientDark, togglePresent, themeAttr, glyph, label,
                   handlers, writes, trace, loadStorage, prevWrite, loads>>

Resolve ==
    /\ pc = "resolve"
    /\ \E throws \in BOOLEAN :
        /\ initialTheme' = getPreferredTheme(storage, throws, ambientDark)
        /\ readFailed' = throws
        /\ unprompted' = IF throws THEN Null ELSE unprompted
    /\ reads' = reads + 1
    /\ ref' = [ref EXCEPT !.initialTheme = getPreferredTheme(ref.storage, FALSE, ambientDark)]
    /\ pc' = "apply"
    /\ UNCHANGED <<storage, ambientDark, togglePresent, themeAttr, glyph, label,
                   handlers, writes, trace, loadStorage, prevWrite, loads>>

\* the initial setTheme call of a page load that found no stored value
\* persists the theme of the media query; a click or a fault ends that
Unprompted(throws) ==
    IF pc # "apply" \/ throws \/ readFailed THEN Null
    ELSE IF loadStorage = Null THEN matchMedia(ambientDark)
    ELSE unprompted

\* the state change of one setTheme(theme) call, here and in ref
Apply(theme, refTheme) ==
    /\ \E throws \in BOOLEAN :
        LET page == setTheme(CurrentPage, theme, throws)
        IN  /\ themeAttr' = page.themeAttr
            /\ glyph' = page.textContent
            /\ label' = page.ariaLabel
            /\ storage' = page.storage
            /\ trace' = Append(trace, Entry(theme, throws, storage, page))
            /\ unprompted' = Unprompted(throws)
    /\ writes' = writes + 1
    /\ ref' = RefAfter(setTheme(RefPage, refTheme, FALSE))

\* line 44: setTheme(getPreferredTheme())
ApplyInitial ==
    /\ pc = "apply"
    /\ Apply(initialTheme, ref.initialTheme)
    /\ pc' = "register"
    /\ UNCHANGED <<ambientDark, togglePresent, handlers, initialTheme, reads,
                   readFailed, loadStorage, prevWrite, loads>>

\* line 46: toggle.addEventListener("click", ...)
Register ==
    /\ pc = "register"
    /\ handlers' = handlers + 1
    /\ pc' = "ready"
    /\ UNCHANGED <<storage, ambientDark, togglePresent, themeAttr, glyph, label,
                   initialTheme, reads, writes, readFailed, trace,
                   loadStorage, prevWrite, loads, ref, unprompted>>

\* lines 46-51: the user activates the toggle and the listener runs
Click ==
    /\ pc = "ready"
    /\ handlers > 0
    /\ Len(trace) <= MaxClicks
    /\ Apply(nextTheme(themeAttr), nextTheme(ref.themeAttr))
    /\ UNCHANGED <<ambientDark, togglePresent, pc, handlers, initialTheme, reads,
                   readFailed, loadStorage, prevWrite, loads>>

\* the browser loads a page again: a new document, the same localStorage
Reload ==
    /\ pc \in {"ready", "returned"}
    /\ loads < MaxLoads
    /\ loads' = loads + 1
    /\ ambientDark' \in BOOLEAN
    /\ togglePresent' \in BOOLEAN
    /\ pc' = "load"
    /\ themeAttr' = Null
    /\ glyph' = Markup
    /\ label' = Markup
    /\ handlers' = 0
    /\ initialTheme' = Null
    /\ reads' = 0
    /\ writes' = 0
    /\ readFailed' = FALSE
    /\ trace' = <<>>
    /\ loadStorage' = storage
    /\ prevWrite' = IF trace = <<>> THEN prevWrite ELSE trace[Len(trace)]
    /\ ref' = FreshRef(storage)
    /\ UNCHANGED <<storage, unprompted>>

Next ==
    \/ QueryToggle
    \/ Resolve
    \/ ApplyInitial
    \/ Register
    \/ Click
    \/ Reload

Spec == Init /\ [][Next]_vars

\* the script body is synchronous: once the page has loaded, each of its
\* statements runs; clicks and page loads are up to the user
FairSpec ==
    /\ Spec
    /\ WF_vars(QueryToggle)
    /\ WF_vars(Resolve)
    /\ WF_vars(ApplyInitial)
    /\ WF_vars(Register)

\* ---- properties ----

AfterResolve == pc \in {"apply", "register", "ready"}
AfterApply == pc \in {"register", "ready"}
AmbientTheme == IF ambientDark THEN "dark" ELSE "light"
LastEntry == trace[Len(trace)]
Visible(e) == <<e.themeAttr, e.textContent, e.ariaLabel>>

\* C1: a stored value light or dark that the read returns is the result of
\* getPreferredTheme, whatever the media query answers.
C1_StoredThemeWins ==
    (AfterResolve /\ ~readFailed /\ loadStorage \in Themes)
        => initialTheme = loadStorage

C1_Witness ==
    /\ pc = "apply" /\ ~readFailed
    /\ loadStorage = "light" /\ ambientDark
    /\ initialTheme = "light"

\* C2: with no stored value, getPreferredTheme returns dark exactly when the
\* media query reports dark, and light otherwise.
C2_UnsetUsesAmbient ==
    (AfterResolve /\ ~readFailed /\ loadStorage = Null)
        => /\ (initialTheme = "dark") <=> ambientDark
           /\ (initialTheme = "light") <=> ~ambientDark

C2_Witness ==
    /\ pc = "apply" /\ ~readFailed
    /\ loadStorage = Null /\ ambientDark
    /\ initialTheme = "dark"

\* C3: setTheme(v) leaves the theme attribute at v; for v = dark the glyph is
\* the sun and the label "Switch to light mode", for v = light the glyph is
\* the moon and the label "Switch to dark mode".
C3_SetThemeEffect ==
    trace # <<>> =>
        /\ themeAttr = LastEntry.arg
        /\ LastEntry.arg = "dark" => (glyph = Sun /\ label = ToLight)
        /\ LastEntry.arg = "light" => (glyph = Moon /\ label = ToDark)

C3_Witness ==
    /\ Len(trace) >= 2
    /\ LastEntry.arg = "dark"
    /\ themeAttr = "dark" /\ glyph = Sun /\ label = ToLight

\* C4: an activation turns the theme attribute dark into light and light into
\* dark, and two consecutive activations bring back the theme attribute, the
\* glyph and the label, and the stored value when every write succeeded.
C4_RoundTrip ==
    /\ \A i \in 1..Len(trace) :
        i + 1 <= Len(trace) =>
            /\ trace[i].themeAttr = "dark" => trace[i + 1].themeAttr = "light"
            /\ trace[i].themeAttr = "light" => trace[i + 1].themeAttr = "dark"
    /\ \A i \in 1..Len(trace) :
        i + 2 <= Len(trace) =>
            /\ Visible(trace[i + 2]) = Visible(trace[i])
            /\ (\A j \in 1..(i + 2) : ~trace[j].failed)
                   => trace[i + 2].storage = trace[i].storage

\* C5: when the write throws, setTheme(v) still leaves the theme attribute at
\* v and the glyph and label that belong to v.
C5_VisualDespiteWriteFault ==
    (trace # <<>> /\ LastEntry.failed) =>
        /\ themeAttr = LastEntry.arg
        /\ glyph = IF LastEntry.arg = "dark" THEN Sun ELSE Moon
        /\ label = IF LastEntry.arg = "dark" THEN ToLight ELSE ToDark
        /\ storage = LastEntry.before

C5_Witness ==
    /\ Len(trace) >= 2 /\ LastEntry.failed
    /\ themeAttr = "light" /\ glyph = Moon /\ label = ToDark
    /\ storage = "dark"

\* C6: on a page without the toggle the script changes nothing: the theme
\* attribute stays as it was, storage is neither read nor written, and no
\* listener is registered.
C6_NoToggleNoWork ==
    ~togglePresent =>
        /\ themeAttr = Null /\ glyph = Markup /\ label = Markup
        /\ reads = 0 /\ writes = 0 /\ handlers = 0
        /\ storage = loadStorage
        /\ pc \in {"load", "returned"}

C6_Witness == ~togglePresent /\ pc = "returned" /\ loads > 1 /\ storage = "dark"

\* C7: the result of getPreferredTheme, and the theme attribute once the
\* initial theme is applied, is light or dark for every stored value.
C7_AlwaysLightOrDark ==
    /\ AfterResolve => initialTheme \in Themes
    /\ AfterApply => themeAttr \in Themes

\* C8: when the read throws, getPreferredTheme returns the theme of the media
\* query, and the script goes on to apply it and register the listener.
C8_ReadFaultUsesAmbient ==
    readFailed =>
        /\ AfterResolve
        /\ initialTheme = AmbientTheme
        /\ pc = "apply" => ENABLED ApplyInitial
        /\ pc = "register" => (themeAttr = AmbientTheme /\ ENABLED Register)
        /\ pc = "ready" => handlers = 1

C8_Witness ==
    /\ readFailed /\ pc = "ready" /\ handlers = 1
    /\ loadStorage = "dark" /\ ~ambientDark
    /\ initialTheme = "light"

\* C9 as stated: in every state of a page session the theme attribute, glyph
\* and label equal those of the run whose storage never fails.
C9_SameAsFaultFree ==
    /\ themeAttr = ref.themeAttr
    /\ glyph = ref.textContent
    /\ label = ref.ariaLabel

\* C9 amended: the theme attribute, glyph and label equal those of the run
\* whose storage never fails, unless the read threw while storage held a
\* non-empty value different from the theme of the media query.
C9_SameUnlessStoredValueLost ==
    (~readFailed \/ ~Truthy(loadStorage) \/ loadStorage = AmbientTheme)
        => C9_SameAsFaultFree

C9_Witness ==
    /\ Len(trace) >= 3
    /\ readFailed /\ loadStorage = Null
    /\ \A i \in 1..Len(trace) : trace[i].failed
    /\ storage # ref.storage
    /\ C9_SameAsFaultFree

\* C10 as stated: after a page session whose last write threw, the next page
\* load resolves to the theme of the media query.
C10_FailedWriteThenAmbient ==
    (prevWrite.failed /\ AfterResolve) => initialTheme = AmbientTheme

\* C10 amended: after a page session whose last write threw, the next page
\* load resolves to the value that was in storage before that write when it
\* is non-empty and the read returns it, and to the theme of the media query
\* otherwise.
C10_FailedWriteKeepsOldValue ==
    (prevWrite.failed /\ AfterResolve) =>
        initialTheme = IF ~readFailed /\ Truthy(prevWrite.before)
                       THEN prevWrite.before
                       ELSE AmbientTheme

C10_Witness ==
    /\ prevWrite.failed /\ prevWrite.arg = "dark" /\ prevWrite.before = "light"
    /\ pc = "apply" /\ ~readFailed /\ ambientDark
    /\ initialTheme = "light"

\* C11: when the last write succeeded the stored value equals the theme
\* attribute, and the next page load whose read succeeds resolves to the theme
\* attribute the earlier page load ended with, whatever the media query answers.
C11_ChoicePersisted ==
    /\ (trace # <<>> /\ ~LastEntry.failed) => storage = themeAttr
    /\ (prevWrite # NoWrite /\ ~prevWrite.failed /\ AfterResolve /\ ~readFailed)
           => initialTheme = prevWrite.themeAttr

C11_Witness ==
    /\ prevWrite.themeAttr = "dark" /\ ~prevWrite.failed
    /\ prevWrite.before = "light"
    /\ pc = "apply" /\ ~readFailed /\ ~ambientDark
    /\ initialTheme = "dark"

\* C12: every value passed to setItem, by initialization and by every
\* activation, is light or dark, for every initial storage content.
C12_WritesLightOrDark ==
    \A i \in 1..Len(trace) : trace[i].arg \in Themes

\* C13: once the listener is registered, the theme attribute of the page
\* changes only in an activation, every activation changes it, and an
\* activation stays possible.
C13_OnlyActivationChangesTheme ==
    /\ [][(pc = "ready" /\ pc' = "ready")
            => ((themeAttr' # themeAttr) <=> (Len(trace') = Len(trace) + 1))]_vars
    /\ []((pc = "ready" /\ Len(trace) <= MaxClicks) => ENABLED Click)

C13_Witness ==
    /\ pc = "ready" /\ Len(trace) >= 3
    /\ trace[Len(trace) - 1].themeAttr # themeAttr
    /\ trace[Len(trace) - 2].themeAttr = themeAttr

\* C14: no step of the controller leaves the storage key unset once it holds
\* a value.
C14_NeverDeletes == [][storage # Null => storage' # Null]_vars

C14_Witness ==
    /\ loadStorage = Null /\ storage # Null
    /\ Len(trace) >= 2 /\ LastEntry.failed

\* C15: on a page with the toggle the script always gets from the lookup to
\* the registered listener, whatever storage accesses throw; it reads once,
\* applies the value it resolved, registers one listener after that, and
\* handles no activation before.
C15_InitOrder ==
    /\ [][(togglePresent /\ pc' # pc) =>
            <<pc, pc'>> \in {<<"load", "resolve">>, <<"resolve", "apply">>,
                             <<"apply", "register">>, <<"register", "ready">>,
                             <<"ready", "load">>}]_vars
    /\ [](togglePresent =>
            /\ reads = IF AfterResolve THEN 1 ELSE 0
            /\ handlers = IF pc = "ready" THEN 1 ELSE 0
            /\ (Len(trace) = 0) <=> ~AfterApply
            /\ pc = "register" => Len(trace) = 1
            /\ AfterApply => trace[1].arg = initialTheme)
    /\ ((togglePresent /\ pc = "load") ~> (pc = "ready"))

C15_Witness ==
    /\ togglePresent /\ pc = "ready" /\ handlers = 1
    /\ readFailed /\ Len(trace) = 1 /\ trace[1].failed
    /\ loadStorage = "dark" /\ storage = "dark" /\ themeAttr = "light"

\* C16: once the initial theme is applied, the glyph is the sun and the label
\* "Switch to light mode" exactly when the theme attribute is dark, and
\* otherwise the glyph is the moon and the label "Switch to dark mode".
C16_AffordanceMatchesTheme ==
    AfterApply =>
        /\ (glyph = Sun /\ label = ToLight) <=> themeAttr = "dark"
        /\ themeAttr # "dark" => (glyph = Moon /\ label = ToDark)

C16_Witness ==
    /\ pc = "ready" /\ Len(trace) >= 2
    /\ themeAttr = "light" /\ glyph = Moon /\ label = ToDark
    /\ trace[Len(trace) - 1].textContent = Sun

\* C17: a page load that finds no stored value and whose storage works
\* persists the theme of the media query without any activation; until an
\* activation or a storage fault, storage holds that theme and every later
\* page load resolves to it, whatever the media query answers by then.
C17_InitPersistsAmbient ==
    /\ (AfterApply /\ Len(trace) = 1 /\ loadStorage = Null
          /\ ~readFailed /\ ~trace[1].failed)
           => (unprompted = AmbientTheme /\ storage = AmbientTheme)
    /\ unprompted # Null =>
           /\ storage = unprompted
           /\ AfterResolve => initialTheme = unprompted
           /\ AfterApply => themeAttr = unprompted

C17_Witness ==
    /\ loads = 3 /\ pc = "register"
    /\ unprompted = "dark" /\ ~ambientDark
    /\ initialTheme = "dark" /\ storage = "dark"

\* C18: an activation calls setTheme with light when the theme attribute is
\* dark and with dark for every other attribute value, so the theme attribute
\* after an activation is light or dark.
C18_ActivationTarget ==
    \A i \in 1..Len(trace) :
        i >= 2 =>
            /\ trace[i].arg = IF trace[i - 1].themeAttr = "dark" THEN "light" ELSE "dark"
            /\ trace[i].themeAttr = trace[i].arg
            /\ trace[i].themeAttr \in Themes

C18_Witness ==
    /\ Len(trace) >= 3
    /\ trace[1].themeAttr = "sepia"
    /\ trace[2].themeAttr = "dark"
    /\ trace[3].themeAttr = "light"

\* C19: a stored empty string counts as no stored value: getPreferredTheme
\* returns the theme of the media query, and the initial setTheme call, when
\* its write succeeds, replaces the empty string by that theme.
C19_EmptyStringIsUnset ==
    /\ (AfterResolve /\ loadStorage = "") => initialTheme = AmbientTheme
    /\ (AfterApply /\ loadStorage = "" /\ ~trace[1].failed)
           => trace[1].storage = AmbientTheme
    /\ (pc = "register" /\ loadStorage = "" /\ trace[1].failed) => storage = ""

C19_Witness ==
    /\ pc = "register" /\ loadStorage = "" /\ ~readFailed /\ ~trace[1].failed
    /\ ambientDark /\ initialTheme = "dark" /\ storage = "dark"

====
